---- MODULE Spec2Model ----
(***************************************************************************)
(* A model of the chat assistant: the chat shell (main.py), the intent     *)
(* classifier, the meeting and payment handlers and the response formatter *)
(* (utils/response_handlers.py), the client directory                      *)
(* (utils/mongo_client.py) and the calendar client (utils/graph_api.py).   *)
(*                                                                         *)
(* Python strings are sequences of one-character strings, so that lower(), *)
(* the "in" substring test, split(), int() and strptime() are computed and *)
(* not assumed.  Python values that may be None are records (PyNone,       *)
(* PyStr, PyNum).  An f-string is the sequence of its parts: literal text  *)
(* (Lit) and interpolated values (Val, Exc).                               *)
(***************************************************************************)
EXTENDS Integers, Sequences, FiniteSets, TLC

VARIABLES
    prompt,      \* the text of the message being processed
    intent,      \* what determine_intent returned for it
    turn,        \* what the handler of the turn did: its inputs, calls, result
    response,    \* the display string of the turn
    env,         \* what the store, the model and the calendar answer this turn
    user_email,  \* st.session_state.user_email
    messages     \* st.session_state.messages

vars == <<prompt, intent, turn, response, env, user_email, messages>>

(***************************************************************************)
(* Bounds of the model.                                                    *)
(***************************************************************************)
\* a message is the concatenation of at most MaxFragments fragments
MaxFragments == 2
\* the chat holds at most MaxMessages entries
MaxMessages == 4

(***************************************************************************)
(* Strings.                                                                *)
(***************************************************************************)
UpperCase == <<"A","B","C","D","E","F","G","H","I","J","K","L","M",
               "N","O","P","Q","R","S","T","U","V","W","X","Y","Z">>
LowerCase == <<"a","b","c","d","e","f","g","h","i","j","k","l","m",
               "n","o","p","q","r","s","t","u","v","w","x","y","z">>

LowerChar(c) ==
    IF \E i \in DOMAIN UpperCase : UpperCase[i] = c
    THEN LowerCase[CHOOSE i \in DOMAIN UpperCase : UpperCase[i] = c]
    ELSE c

\* str.lower()
lower(s) == [i \in 1..Len(s) |-> LowerChar(s[i])]

\* word in s
Contains(s, word) ==
    \E i \in 0..(Len(s) - Len(word)) : SubSeq(s, i + 1, i + Len(word)) = word

Range(f) == { f[i] : i \in DOMAIN f }

(***************************************************************************)
(* determine_intent                                                        *)
(***************************************************************************)
kw_hello == <<"h","e","l","l","o">>
kw_hi == <<"h","i">>
kw_hey == <<"h","e","y">>
kw_help == <<"h","e","l","p">>
kw_schedule == <<"s","c","h","e","d","u","l","e">>
kw_meeting == <<"m","e","e","t","i","n","g">>
kw_appointment == <<"a","p","p","o","i","n","t","m","e","n","t">>
kw_arrange == <<"a","r","r","a","n","g","e">>
kw_book == <<"b","o","o","k">>
kw_payment == <<"p","a","y","m","e","n","t">>
kw_reminder == <<"r","e","m","i","n","d","e","r">>
kw_due == <<"d","u","e">>
kw_amount == <<"a","m","o","u","n","t">>
kw_pay == <<"p","a","y">>
kw_invoice == <<"i","n","v","o","i","c","e">>

GreetingWords == <<kw_hello, kw_hi, kw_hey, kw_help>>
MeetingWords == <<kw_schedule, kw_meeting, kw_appointment, kw_arrange, kw_book>>
PaymentWords == <<kw_payment, kw_reminder, kw_due, kw_amount, kw_pay, kw_invoice>>

\* any(word in text for word in words)
AnyWordIn(words, text) == \E i \in DOMAIN words : Contains(text, words[i])

\* the three keyword checks of determine_intent, on the text given
IntentOfText(text) ==
    IF AnyWordIn(GreetingWords, text) THEN "greeting"
    ELSE IF AnyWordIn(MeetingWords, text) THEN "meeting"
    ELSE IF AnyWordIn(PaymentWords, text) THEN "payment_reminder"
    ELSE "general"

\* a classifier that forgets to lower-case the prompt
determine_intent_nolower(p) == IntentOfText(p)

determine_intent(p) == IntentOfText(lower(p))

(***************************************************************************)
(* Python values: None, a str, a number, and a key a dict does not have.   *)
(***************************************************************************)
PyNone == [t |-> "none", s |-> <<>>, n |-> 0]
PyStr(c) == [t |-> "str", s |-> c, n |-> 0]
PyNum(k) == [t |-> "num", s |-> <<>>, n |-> k]
Absent == [t |-> "absent", s |-> <<>>, n |-> 0]

\* bool(v)
Truthy(v) == (v.t = "str" /\ v.s # <<>>) \/ (v.t = "num" /\ v.n # 0)

\* d.get(key) and d.get(key, default) on the model's JSON object
Get(d, key) == IF d[key].t = "absent" THEN PyNone ELSE d[key]
GetDefault(d, key, default) == IF d[key].t = "absent" THEN default ELSE d[key]

\* details.get(key, default) on a dict built with a fixed set of keys
DictGet(d, key, default) == IF key \in DOMAIN d THEN d[key] ELSE default

\* parts of an f-string
Lit(text) == [k |-> "lit", lit |-> text, val |-> PyNone]
Val(v) == [k |-> "val", lit |-> "", val |-> v]
Exc(kind) == [k |-> "exc", lit |-> kind, val |-> PyNone]

(***************************************************************************)
(* int(), split()[0], strptime(): what the standard library does with the  *)
(* strings the handlers give it.                                           *)
(***************************************************************************)
Digits == <<"0","1","2","3","4","5","6","7","8","9">>
IsDigit(c) == \E i \in DOMAIN Digits : Digits[i] = c
DigitVal(c) == (CHOOSE i \in DOMAIN Digits : Digits[i] = c) - 1
AllDigits(f) == Len(f) > 0 /\ \A i \in 1..Len(f) : IsDigit(f[i])

RECURSIVE ToNat(_)
ToNat(f) ==
    IF Len(f) = 0 THEN 0
    ELSE 10 * ToNat(SubSeq(f, 1, Len(f) - 1)) + DigitVal(f[Len(f)])

IsSpace(c) == c = " "

\* s.split()[0]: the first whitespace-delimited token; ok is FALSE when
\* split() is empty (IndexError)
FirstToken(s) ==
    LET starts == { i \in 1..Len(s) : ~IsSpace(s[i]) }
    IN  IF starts = {} THEN [ok |-> FALSE, tok |-> <<>>]
        ELSE LET b == CHOOSE i \in starts : \A j \in starts : i <= j
                 ends == { i \in b..Len(s) : i = Len(s) \/ IsSpace(s[i + 1]) }
                 e == CHOOSE i \in ends : \A j \in ends : i <= j
             IN  [ok |-> TRUE, tok |-> SubSeq(s, b, e)]

\* int(tok): an optional sign, then digits with single underscores between
\* them; ok is FALSE for ValueError
PyInt(tok) ==
    LET signed == Len(tok) > 0 /\ tok[1] \in {"+", "-"}
        body == IF signed THEN SubSeq(tok, 2, Len(tok)) ELSE tok
        wellformed ==
            /\ Len(body) > 0
            /\ IsDigit(body[1]) /\ IsDigit(body[Len(body)])
            /\ \A i \in 1..Len(body) : IsDigit(body[i]) \/ body[i] = "_"
            /\ \A i \in 1..(Len(body) - 1) : ~(body[i] = "_" /\ body[i + 1] = "_")
        digits == SelectSeq(body, IsDigit)
    IN  IF ~wellformed THEN [ok |-> FALSE, val |-> 0]
        ELSE [ok |-> TRUE,
              val |-> IF signed /\ tok[1] = "-" THEN 0 - ToNat(digits) ELSE ToNat(digits)]

IsLeap(y) == y % 4 = 0 /\ (y % 100 # 0 \/ y % 400 = 0)
DaysInMonth(y, m) ==
    IF m = 2 THEN (IF IsLeap(y) THEN 29 ELSE 28)
    ELSE IF m \in {4, 6, 9, 11} THEN 30 ELSE 31

BadDate == [ok |-> FALSE, y |-> 0, m |-> 0, d |-> 0]
BadTime == [ok |-> FALSE, h |-> 0, mi |-> 0]

\* a field of one or two digits
ShortNumber(f) == AllDigits(f) /\ Len(f) <= 2

\* datetime.strptime(s, "%Y-%m-%d"): four digits, a month 1..12, a day 1..31
\* (one or two digits, or a space and a digit), and a date that exists
ParseDate(s) ==
    LET dashes == { i \in 1..Len(s) : s[i] = "-" }
    IN  IF Cardinality(dashes) # 2 THEN BadDate
        ELSE LET i1 == CHOOSE i \in dashes : \A j \in dashes : i <= j
                 i2 == CHOOSE i \in dashes : \A j \in dashes : i >= j
                 yf == SubSeq(s, 1, i1 - 1)
                 mf == SubSeq(s, i1 + 1, i2 - 1)
                 df == SubSeq(s, i2 + 1, Len(s))
                 padded == Len(df) = 2 /\ IsSpace(df[1]) /\ IsDigit(df[2])
                 yok == AllDigits(yf) /\ Len(yf) = 4
                 mok == ShortNumber(mf) /\ ToNat(mf) \in 1..12
                 dok == \/ ShortNumber(df) /\ ToNat(df) \in 1..31
                        \/ padded /\ DigitVal(df[2]) \in 1..9
             IN  IF ~(yok /\ mok /\ dok) THEN BadDate
                 ELSE LET y == ToNat(yf)
                          m == ToNat(mf)
                          d == IF padded THEN DigitVal(df[2]) ELSE ToNat(df)
                      IN  IF y >= 1 /\ d <= DaysInMonth(y, m)
                          THEN [ok |-> TRUE, y |-> y, m |-> m, d |-> d]
                          ELSE BadDate

\* datetime.strptime(s, "%H:%M"): an hour 0..23 and a minute 0..59, each of
\* one or two digits
ParseTime(s) ==
    LET colons == { i \in 1..Len(s) : s[i] = ":" }
    IN  IF Cardinality(colons) # 1 THEN BadTime
        ELSE LET c == CHOOSE i \in colons : TRUE
                 hf == SubSeq(s, 1, c - 1)
                 mf == SubSeq(s, c + 1, Len(s))
             IN  IF /\ ShortNumber(hf) /\ ToNat(hf) <= 23
                    /\ ShortNumber(mf) /\ ToNat(mf) <= 59
                 THEN [ok |-> TRUE, h |-> ToNat(hf), mi |-> ToNat(mf)]
                 ELSE BadTime

\* date.toordinal(): day 1 is 0001-01-01
RECURSIVE DaysBeforeMonth(_, _)
DaysBeforeMonth(y, m) ==
    IF m = 1 THEN 0 ELSE DaysBeforeMonth(y, m - 1) + DaysInMonth(y, m - 1)

ToOrdinal(y, m, d) ==
    LET p == y - 1
    IN  p * 365 + p \div 4 - p \div 100 + p \div 400 + DaysBeforeMonth(y, m) + d

\* date.max.toordinal(), 9999-12-31
MaxOrdinal == 3652059
MinutesPerDay == 1440

\* a datetime is its day's ordinal and the minute of the day
BadDateTime == [ok |-> FALSE, ord |-> 0, min |-> 0]

\* datetime.strptime(s, "%Y-%m-%d %H:%M"): a date, whitespace, a time.  A
\* time holds no space and a date does not end in one, so the whitespace
\* between them is the last run of spaces of s
ParseDateTime(s) ==
    LET spaces == { i \in 1..Len(s) : IsSpace(s[i]) }
    IN  IF spaces = {} THEN BadDateTime
        ELSE LET last == CHOOSE i \in spaces : \A j \in spaces : i >= j
                 run == { i \in spaces : \A j \in i..last : IsSpace(s[j]) }
                 first == CHOOSE i \in run : \A j \in run : i <= j
             IN  CHOOSE r \in
                    { IF dt.ok /\ tm.ok
                      THEN [ok |-> TRUE, ord |-> ToOrdinal(dt.y, dt.m, dt.d),
                            min |-> tm.h * 60 + tm.mi]
                      ELSE BadDateTime :
                        dt \in { ParseDate(SubSeq(s, 1, first - 1)) },
                        tm \in { ParseTime(SubSeq(s, last + 1, Len(s))) } } : TRUE

\* dt + timedelta(minutes=n); ok is FALSE for OverflowError
AddMinutes(dt, n) ==
    LET total == dt.min + n
        ord == dt.ord + total \div MinutesPerDay
    IN  IF ord \in 1..MaxOrdinal
        THEN [ok |-> TRUE, ord |-> ord, min |-> total % MinutesPerDay]
        ELSE BadDateTime

(***************************************************************************)
(* The messages a user may type: concatenations of fragments.              *)
(***************************************************************************)
Fragments == {
    <<"h","i">>,
    <<"H","e","l","l","o">>,
    <<"H","E","Y">>,
    <<"h","e","l","p">>,
    <<"t","h","i","s">>,
    <<"s","c","h","e","d","u","l","e">>,
    <<"M","e","e","t","i","n","g">>,
    <<"B","O","O","K">>,
    <<"a","p","p","o","i","n","t","m","e","n","t">>,
    <<"a","r","r","a","n","g","e">>,
    <<"P","a","y","m","e","n","t">>,
    <<"d","u","e">>,
    <<"i","n","v","o","i","c","e">>,
    <<"r","e","m","i","n","d","e","r">>,
    <<"a","m","o","u","n","t">>,
    <<"p","a","y">>,
    <<" ">>,
    <<"w","h","a","t">>,
    <<"x">> }

RECURSIVE TextsOf(_)
TextsOf(n) ==
    IF n = 0 THEN { <<>> }
    ELSE LET shorter == TextsOf(n - 1)
         IN  shorter \cup { t \o f : t \in shorter, f \in Fragments }

Texts == TextsOf(MaxFragments)

(***************************************************************************)
(* MongoDBClient.  The store answers connect() with "ok", "timeout" (the   *)
(* ping fails) or "bad_uri" (MongoClient() itself raises), and a lookup    *)
(* with "ok", "operation_failure" or "unreachable".                        *)
(***************************************************************************)
MongoDBClient == [client |-> "none", connected |-> FALSE]

connect(answer) ==
    IF answer = "ok" THEN [client |-> "open", connected |-> TRUE]
    ELSE IF answer = "timeout" THEN [client |-> "open", connected |-> FALSE]
    ELSE [client |-> "none", connected |-> FALSE]

close(mongo) ==
    IF mongo.client # "none" THEN [client |-> "closed", connected |-> FALSE]
    ELSE mongo

\* the records find_one's anchored, case-insensitive pattern matches
Matches(directory, name) ==
    { r \in directory : lower(r.name) = lower(name.s) }

\* a lookup that compares the names as they are written
verify_client_exact(directory, answer, name) ==
    IF answer = "unreachable"
    THEN [raised |-> TRUE, exists |-> FALSE, email |-> PyNone]
    ELSE IF answer = "operation_failure" \/ { r \in directory : r.name = name.s } = {}
    THEN [raised |-> FALSE, exists |-> FALSE, email |-> PyNone]
    ELSE [raised |-> FALSE, exists |-> TRUE,
          email |-> (CHOOSE r \in directory : r.name = name.s).email]

\* a lookup that turns every exception into (False, None)
verify_client_quiet(directory, answer, name) ==
    IF answer \in {"unreachable", "operation_failure"} \/ Matches(directory, name) = {}
    THEN [raised |-> FALSE, exists |-> FALSE, email |-> PyNone]
    ELSE [raised |-> FALSE, exists |-> TRUE,
          email |-> (CHOOSE r \in Matches(directory, name) : TRUE).email]

\* verify_client: (exists, email), or an exception that is no OperationFailure
verify_client(directory, answer, name) ==
    IF answer = "unreachable"
    THEN [raised |-> TRUE, exists |-> FALSE, email |-> PyNone]
    ELSE IF answer = "operation_failure" \/ Matches(directory, name) = {}
    THEN [raised |-> FALSE, exists |-> FALSE, email |-> PyNone]
    ELSE [raised |-> FALSE, exists |-> TRUE,
          email |-> (CHOOSE r \in Matches(directory, name) : TRUE).email]

NoLookup == [done |-> FALSE]
Looked(r) == [done |-> TRUE, raised |-> r.raised, exists |-> r.exists, email |-> r.email]

(***************************************************************************)
(* parse_duration, validate_date_time, create_calendar_event               *)
(***************************************************************************)
hour == <<"h","o","u","r">>
min == <<"m","i","n">>
OneHour == <<"1"," ","h","o","u","r">>
NoneText == <<"N","o","n","e">>
BusinessMeeting == <<"B","u","s","i","n","e","s","s"," ","M","e","e","t","i","n","g">>

\* the default of every branch that does not give a number of minutes
DefaultMinutes == 60

\* int(duration_str.split()[0]) with the ValueError and IndexError caught
LeadingInt(d) ==
    LET first == FirstToken(d)
    IN  IF first.ok THEN PyInt(first.tok) ELSE [ok |-> FALSE, val |-> 0]

\* a parser that tests the units on the string as written
parse_duration_nolower(duration) ==
    IF ~Truthy(duration) THEN DefaultMinutes
    ELSE LET d == duration.s
             n == LeadingInt(d)
         IN  IF Contains(d, hour) THEN (IF n.ok THEN n.val * 60 ELSE DefaultMinutes)
             ELSE IF Contains(d, min) THEN (IF n.ok THEN n.val ELSE DefaultMinutes)
             ELSE DefaultMinutes

parse_duration(duration) ==
    IF ~Truthy(duration) THEN DefaultMinutes
    ELSE LET d == lower(duration.s)
             n == LeadingInt(d)
         IN  IF Contains(d, hour) THEN (IF n.ok THEN n.val * 60 ELSE DefaultMinutes)
             ELSE IF Contains(d, min) THEN (IF n.ok THEN n.val ELSE DefaultMinutes)
             ELSE DefaultMinutes

\* a validator that checks the time before the date
validate_date_time_timefirst(date, time) ==
    IF Truthy(time) /\ ~ParseTime(time.s).ok
    THEN [valid |-> FALSE,
          message |-> <<Lit("Invalid time format: "), Val(time),
                        Lit(". Please use HH:MM format (24-hour).")>>]
    ELSE IF Truthy(date) /\ ~ParseDate(date.s).ok
    THEN [valid |-> FALSE,
          message |-> <<Lit("Invalid date format: "), Val(date),
                        Lit(". Please use YYYY-MM-DD format.")>>]
    ELSE [valid |-> TRUE, message |-> <<>>]

validate_date_time(date, time) ==
    IF Truthy(date) /\ ~ParseDate(date.s).ok
    THEN [valid |-> FALSE,
          message |-> <<Lit("Invalid date format: "), Val(date),
                        Lit(". Please use YYYY-MM-DD format.")>>]
    ELSE IF Truthy(time) /\ ~ParseTime(time.s).ok
    THEN [valid |-> FALSE,
          message |-> <<Lit("Invalid time format: "), Val(time),
                        Lit(". Please use HH:MM format (24-hour).")>>]
    ELSE [valid |-> TRUE, message |-> <<>>]

\* str(v) of a value that is a str or None
Str(v) == IF v.t = "str" THEN v.s ELSE NoneText

\* x or default
Or(v, default) == IF Truthy(v) THEN v ELSE default

NoCall == [svc |-> "none"]

\* the statuses create_calendar_event returns: "created", "failed", and
\* "error: " followed by the text of the exception
created == <<"c","r","e","a","t","e","d">>
failed == <<"f","a","i","l","e","d">>
error == <<"e","r","r","o","r",":"," ">>
ValueError == <<"V","a","l","u","e","E","r","r","o","r">>
OverflowError == <<"O","v","e","r","f","l","o","w","E","r","r","o","r">>

\* the one element of a set of one element.  A name bound over such a set
\* stands for a value computed once, like a local variable of the code
Only(S) == CHOOSE x \in S : TRUE

\* start_time + timedelta(minutes=duration_mins), when start_time parsed
EndTime(start_time, duration_mins) ==
    IF start_time.ok THEN AddMinutes(start_time, duration_mins) ELSE BadDateTime

\* the call and the (success, status) of create_calendar_event, for the
\* start and end it computed
CalendarEvent(details, email, graph, start_time, end_time) ==
    IF ~start_time.ok
    THEN [call |-> NoCall, success |-> FALSE, status |-> PyStr(error \o ValueError)]
    ELSE IF ~end_time.ok
    THEN [call |-> NoCall, success |-> FALSE, status |-> PyStr(error \o OverflowError)]
    ELSE [call |-> [svc |-> "calendar",
                    user_email |-> email,
                    attendee_email |-> details.client_email,
                    subject |-> <<Lit("Meeting with "), Val(details.client_name)>>,
                    start_time |-> [ord |-> start_time.ord, min |-> start_time.min],
                    end_time |-> [ord |-> end_time.ord, min |-> end_time.min],
                    description |-> Or(details.purpose, PyStr(BusinessMeeting))],
          success |-> graph,
          status |-> IF graph THEN PyStr(created) ELSE PyStr(failed)]

\* create_calendar_event: the call made to MSGraphAPI.create_calendar_event, if
\* one is made, and the (success, status) returned; graph says whether the
\* calendar service creates the event
create_calendar_event(details, email, graph) ==
    Only(UNION {
        { CalendarEvent(details, email, graph, start_time, end_time) :
            end_time \in { EndTime(start_time, parse_duration(details.duration)) } } :
        start_time \in
            { ParseDateTime(Str(details.date) \o <<" ">> \o Str(details.time)) } })

(***************************************************************************)
(* get_missing_parameters, format_meeting_response                         *)
(***************************************************************************)
\* a check that, like the formatter's, leaves the purpose out
get_missing_parameters_nopurpose(details) ==
    (IF ~Truthy(details.client_name) THEN <<"client name">> ELSE <<>>)
    \o (IF ~Truthy(details.date) THEN <<"date">> ELSE <<>>)
    \o (IF ~Truthy(details.time) THEN <<"time">> ELSE <<>>)

get_missing_parameters(details) ==
    (IF ~Truthy(details.client_name) THEN <<"client name">> ELSE <<>>)
    \o (IF ~Truthy(details.date) THEN <<"date">> ELSE <<>>)
    \o (IF ~Truthy(details.time) THEN <<"time">> ELSE <<>>)
    \o (IF ~Truthy(details.purpose) THEN <<"purpose">> ELSE <<>>)

\* ', '.join(names)
RECURSIVE Join(_)
Join(names) ==
    IF Len(names) = 0 THEN <<>>
    ELSE IF Len(names) = 1 THEN <<Lit(names[1])>>
    ELSE <<Lit(names[1]), Lit(", ")>> \o Join(Tail(names))

format_meeting_response(details, missing_params) ==
    IF missing_params # <<>>
    THEN <<Lit("I need the following information to schedule the meeting: ")>>
         \o Join(missing_params) \o <<Lit(".")>>
    ELSE <<Lit("Meeting scheduled with "), Val(details.client_name), Lit(" on "),
           Val(details.date), Lit(" at "), Val(details.time), Lit(" for "),
           Val(details.duration), Lit(".")>>
         \o (IF Truthy(details.purpose)
             THEN <<Lit(" Purpose: "), Val(details.purpose), Lit(".")>>
             ELSE <<>>)

(***************************************************************************)
(* Results and the record of a turn.                                       *)
(***************************************************************************)
Error(message) == [response_type |-> "error", message |-> message]

NoDetails == [constructed |-> FALSE]
NoEvent == [attempted |-> FALSE]
Attempted(ev) ==
    [attempted |-> TRUE, call |-> ev.call, success |-> ev.success, status |-> ev.status]

ConnectCall == [svc |-> "connect"]
ModelCall(task) == [svc |-> "model", task |-> task]
LookupCall(name) == [svc |-> "verify_client", name |-> name]

\* the calls a calendar attempt adds to the turn's calls
EventCalls(ev) == IF ev.call.svc = "calendar" THEN <<ev.call>> ELSE <<>>

(***************************************************************************)
(* extract_meeting_info                                                    *)
(***************************************************************************)
\* a constructor that takes the email the model wrote
MeetingDetails_trusting(info) ==
    [client_name |-> Get(info, "client_name"),
     client_email |-> Get(info, "client_email"),
     date |-> Get(info, "date"),
     time |-> Get(info, "time"),
     duration |-> GetDefault(info, "duration", PyStr(OneHour)),
     purpose |-> Get(info, "purpose"),
     calendar_event |-> PyNone]

MeetingDetails(info) ==
    [client_name |-> Get(info, "client_name"),
     client_email |-> PyNone,
     date |-> Get(info, "date"),
     time |-> Get(info, "time"),
     duration |-> GetDefault(info, "duration", PyStr(OneHour)),
     purpose |-> Get(info, "purpose"),
     calendar_event |-> PyNone]

\* the response the handler builds from the details
MeetingResponse(details) ==
    LET missing_params == get_missing_parameters(details)
    IN  [response_type |-> "meeting",
         details |-> [client_name |-> details.client_name,
                      client_email |-> details.client_email,
                      date |-> details.date,
                      time |-> details.time,
                      duration |-> details.duration,
                      purpose |-> details.purpose],
         missing_params |-> missing_params,
         message |-> format_meeting_response(details, missing_params)]

\* a handler that books whenever a date and a time are there, client or not
Booked_unnested(details, r, ev) ==
    LET named == Truthy(details.client_name)
        found == [details EXCEPT !.client_email = IF named THEN r.email ELSE @]
        lookups == IF named THEN <<LookupCall(details.client_name)>> ELSE <<>>
        looked == IF named THEN Looked(r) ELSE NoLookup
    IN  IF named /\ r.raised
        THEN [raised |-> TRUE, error |-> <<>>, details |-> details,
              calls |-> lookups, looked |-> looked, event |-> NoEvent]
        ELSE IF named /\ ~r.exists
        THEN [raised |-> FALSE,
              error |-> <<Lit("Client '"), Val(details.client_name), Lit("' not found")>>,
              details |-> details, calls |-> lookups,
              looked |-> looked, event |-> NoEvent]
        ELSE IF Truthy(found.date) /\ Truthy(found.time)
        THEN [raised |-> FALSE, error |-> <<>>, details |-> found,
              calls |-> lookups \o EventCalls(ev),
              looked |-> looked, event |-> Attempted(ev)]
        ELSE [raised |-> FALSE, error |-> <<>>, details |-> found,
              calls |-> lookups, looked |-> looked, event |-> NoEvent]

\* a handler that goes on to book a client the directory does not have
Booked_unchecked(details, r, ev) ==
    LET found == [details EXCEPT !.client_email = r.email]
        lookups == <<LookupCall(details.client_name)>>
    IN  IF ~Truthy(details.client_name)
        THEN [raised |-> FALSE, error |-> <<>>, details |-> details,
              calls |-> <<>>, looked |-> NoLookup, event |-> NoEvent]
        ELSE IF r.raised
        THEN [raised |-> TRUE, error |-> <<>>, details |-> details,
              calls |-> lookups, looked |-> Looked(r), event |-> NoEvent]
        ELSE IF Truthy(found.date) /\ Truthy(found.time)
        THEN [raised |-> FALSE, error |-> <<>>, details |-> found,
              calls |-> lookups \o EventCalls(ev),
              looked |-> Looked(r), event |-> Attempted(ev)]
        ELSE [raised |-> FALSE, error |-> <<>>, details |-> found,
              calls |-> lookups, looked |-> Looked(r), event |-> NoEvent]

\* "Verify client and get email if client name is provided": the not-found
\* return, the email taken from the directory, and the calendar attempt
\* nested under the client's name.  r is what verify_client returns for the
\* name and ev what create_calendar_event returns for the details with the
\* directory's email
Booked(details, r, ev) ==
    LET found == [details EXCEPT !.client_email = r.email]
        lookups == <<LookupCall(details.client_name)>>
    IN  IF ~Truthy(details.client_name)
        THEN [raised |-> FALSE, error |-> <<>>, details |-> details,
              calls |-> <<>>, looked |-> NoLookup, event |-> NoEvent]
        ELSE IF r.raised
        THEN [raised |-> TRUE, error |-> <<>>, details |-> details,
              calls |-> lookups, looked |-> Looked(r), event |-> NoEvent]
        ELSE IF ~r.exists
        THEN [raised |-> FALSE,
              error |-> <<Lit("Client '"), Val(details.client_name), Lit("' not found")>>,
              details |-> details,
              calls |-> lookups, looked |-> Looked(r), event |-> NoEvent]
        ELSE IF Truthy(found.date) /\ Truthy(found.time)
        THEN [raised |-> FALSE, error |-> <<>>, details |-> found,
              calls |-> lookups \o EventCalls(ev),
              looked |-> Looked(r), event |-> Attempted(ev)]
        ELSE [raised |-> FALSE, error |-> <<>>, details |-> found,
              calls |-> lookups, looked |-> Looked(r), event |-> NoEvent]

\* the lookup and the calendar attempt of the handler, each made once
ResolveAndBook(details, e, email) ==
    Only(UNION {
        { Booked(details, r, ev) :
            ev \in { create_calendar_event([details EXCEPT !.client_email = r.email],
                                           email, e.graph) } } :
        r \in { verify_client(e.directory, e.lookup, details.client_name) } })

\* a handler that asks the model a second time when the first call fails
MeetingOutcome_retry(e, details, checked, booked) ==
    LET base == [handler |-> "extract_meeting_info",
                 mongo |-> close(connect("ok")),
                 calls |-> <<ConnectCall, ModelCall("meeting")>>,
                 looked |-> NoLookup, details |-> NoDetails, event |-> NoEvent,
                 result |-> Error(<<>>)]
    IN  IF e.model # "ok"
        THEN [base EXCEPT !.calls = @ \o <<ModelCall("meeting")>>,
                          !.result =
                 Error(<<Lit("Error processing meeting request: "), Exc(e.model)>>)]
        ELSE IF ~checked.valid
        THEN [base EXCEPT !.details = details, !.result = Error(checked.message)]
        ELSE [base EXCEPT
                 !.details = booked.details,
                 !.calls = @ \o booked.calls,
                 !.looked = booked.looked,
                 !.event = booked.event,
                 !.result =
                    IF booked.raised
                    THEN Error(<<Lit("Error processing meeting request: "),
                                 Exc("lookup")>>)
                    ELSE IF booked.error # <<>> THEN Error(booked.error)
                    ELSE MeetingResponse(booked.details)]

\* the turn of the handler once the store is connected; details is the
\* MeetingDetails built from the model's reply, checked what
\* validate_date_time says of it, booked what the lookup and booking did
MeetingOutcome(e, details, checked, booked) ==
    LET base == [handler |-> "extract_meeting_info",
                 mongo |-> close(connect("ok")),
                 calls |-> <<ConnectCall, ModelCall("meeting")>>,
                 looked |-> NoLookup, details |-> NoDetails, event |-> NoEvent,
                 result |-> Error(<<>>)]
    IN  IF e.model # "ok"
        THEN [base EXCEPT !.result =
                 Error(<<Lit("Error processing meeting request: "), Exc(e.model)>>)]
        ELSE IF ~checked.valid
        THEN [base EXCEPT !.details = details, !.result = Error(checked.message)]
        ELSE [base EXCEPT
                 !.details = booked.details,
                 !.calls = @ \o booked.calls,
                 !.looked = booked.looked,
                 !.event = booked.event,
                 !.result =
                    IF booked.raised
                    THEN Error(<<Lit("Error processing meeting request: "),
                                 Exc("lookup")>>)
                    ELSE IF booked.error # <<>> THEN Error(booked.error)
                    ELSE MeetingResponse(booked.details)]

\* e: what the store, the model, the directory and the calendar answer in
\* this turn; email: the signed-in user's
extract_meeting_info(e, email) ==
    IF ~connect(e.connect).connected
    THEN [handler |-> "extract_meeting_info",
          mongo |-> connect(e.connect),
          calls |-> <<ConnectCall>>,
          looked |-> NoLookup, details |-> NoDetails, event |-> NoEvent,
          result |-> Error(<<Lit("Database connection failed")>>)]
    ELSE Only(UNION {
            { MeetingOutcome(e, details, checked, booked) :
                checked \in { validate_date_time(details.date, details.time) },
                booked \in { ResolveAndBook(details, e, email) } } :
            details \in { MeetingDetails(e.info) } })

(***************************************************************************)
(* validate_payment_details, extract_payment_info                          *)
(***************************************************************************)
PaymentReminderDetails(info, email) ==
    [user_email |-> PyStr(email),
     client_email |-> PyNone,
     client_name |-> Get(info, "client_name"),
     user_name |-> PyNone,
     designation |-> PyNone,
     contact_info |-> PyNone,
     due_date |-> Get(info, "due_date"),
     amt_due |-> Get(info, "amount_due"),
     purpose |-> Get(info, "purpose")]

\* a validation that looks at the due date before the amount
validate_payment_details_datefirst(reminder_details) ==
    IF ~Truthy(reminder_details.client_name)
    THEN <<Lit("Client name is required.")>>
    ELSE IF Truthy(reminder_details.due_date)
            /\ ~ParseDate(reminder_details.due_date.s).ok
    THEN <<Lit("Invalid date format. Use YYYY-MM-DD.")>>
    ELSE IF reminder_details.amt_due.t = "num" /\ reminder_details.amt_due.n <= 0
    THEN <<Lit("Amount due must be greater than 0.")>>
    ELSE <<>>

\* the error message, or <<>> for None
validate_payment_details(reminder_details) ==
    IF ~Truthy(reminder_details.client_name)
    THEN <<Lit("Client name is required.")>>
    ELSE IF reminder_details.amt_due.t = "num" /\ reminder_details.amt_due.n <= 0
    THEN <<Lit("Amount due must be greater than 0.")>>
    ELSE IF Truthy(reminder_details.due_date)
            /\ ~ParseDate(reminder_details.due_date.s).ok
    THEN <<Lit("Invalid date format. Use YYYY-MM-DD.")>>
    ELSE <<>>

extract_payment_info(e, email) ==
    LET mongo_client == connect(e.connect)
        reminder_details == PaymentReminderDetails(e.info, email)
        validation_error == validate_payment_details(reminder_details)
        r == verify_client(e.directory, e.lookup, reminder_details.client_name)
        found == [reminder_details EXCEPT !.client_email = r.email]
        base == [handler |-> "extract_payment_info",
                 mongo |-> close(mongo_client),
                 calls |-> <<ConnectCall, ModelCall("payment")>>,
                 looked |-> NoLookup, details |-> NoDetails, event |-> NoEvent,
                 result |-> Error(<<>>)]
    IN  IF ~mongo_client.connected
        THEN [base EXCEPT !.mongo = mongo_client,
                          !.calls = <<ConnectCall>>,
                          !.result = Error(<<Lit("Database connection failed")>>)]
        ELSE IF e.model # "ok"
        THEN [base EXCEPT !.result = Error(<<Lit("An error occurred: "), Exc(e.model)>>)]
        ELSE IF validation_error # <<>>
        THEN [base EXCEPT !.details = reminder_details,
                          !.result = Error(validation_error)]
        ELSE IF r.raised
        THEN [base EXCEPT !.details = reminder_details,
                          !.calls = @ \o <<LookupCall(reminder_details.client_name)>>,
                          !.looked = Looked(r),
                          !.result = Error(<<Lit("An error occurred: "), Exc("lookup")>>)]
        ELSE IF ~r.exists
        THEN [base EXCEPT !.details = found,
                          !.calls = @ \o <<LookupCall(reminder_details.client_name)>>,
                          !.looked = Looked(r),
                          !.result = Error(<<Lit("Client '"),
                                             Val(reminder_details.client_name),
                                             Lit("' not found.")>>)]
        ELSE [base EXCEPT !.details = found,
                          !.calls = @ \o <<LookupCall(reminder_details.client_name)>>,
                          !.looked = Looked(r),
                          !.result =
                             [response_type |-> "payment_reminder",
                              message |-> <<Lit("Payment reminder for "),
                                            Val(found.client_name),
                                            Lit(": Due amount: "), Val(found.amt_due),
                                            Lit(". Due date: "), Val(found.due_date),
                                            Lit(".")>>]]

(***************************************************************************)
(* handle_greeting, handle_general_query, format_response                  *)
(***************************************************************************)
GreetingKeys == <<kw_hello, kw_hi, kw_hey, kw_help>>
GreetingTexts ==
    <<"Hello! I'm your AI assistant. [...] How can I help you today?",
      "Hi there! How can I assist you today?",
      "Hey! What can I do for you?",
      "I can help you with: [...] What would you like to know about?">>

handle_greeting(p) ==
    LET prompt_lower == lower(p)
        hits == { i \in DOMAIN GreetingKeys : Contains(prompt_lower, GreetingKeys[i]) }
    IN  IF hits # {}
        THEN [response_type |-> "greeting",
              message |-> <<Lit(GreetingTexts[CHOOSE i \in hits : \A j \in hits : i <= j])>>]
        ELSE [response_type |-> "unknown",
              message |-> <<Lit("How can I assist you today?")>>]

handle_general_query(e) ==
    IF e.model = "ok"
    THEN [response_type |-> "general", message |-> <<Val(PyStr(e.content))>>]
    ELSE Error(<<Lit("Error processing query: "), Exc(e.model)>>)

\* the formatter's own list of what is missing
FormatterMissing(details) ==
    (IF ~Truthy(DictGet(details, "client_name", PyNone)) THEN <<"client name">> ELSE <<>>)
    \o (IF ~Truthy(DictGet(details, "date", PyNone)) THEN <<"date">> ELSE <<>>)
    \o (IF ~Truthy(DictGet(details, "time", PyNone)) THEN <<"time">> ELSE <<>>)

\* s.startswith(prefix)
StartsWith(s, prefix) == Len(s) >= Len(prefix) /\ SubSeq(s, 1, Len(prefix)) = prefix

\* the line format_response adds for details["calendar_event"]
CalendarLine(details) ==
    LET calendar_event == DictGet(details, "calendar_event", PyNone)
    IN  IF calendar_event = PyStr(created)
        THEN <<Lit("\nOutlook calendar event has been created and invites have been sent.")>>
        ELSE IF calendar_event = PyStr(failed)
        THEN <<Lit("\nNote: Failed to create Outlook calendar event.")>>
        ELSE IF StartsWith(DictGet(details, "calendar_event", PyStr(<<>>)).s,
                           <<"e","r","r","o","r">>)
        THEN <<Lit("\nNote: Error creating calendar event - "), Val(calendar_event)>>
        ELSE <<>>

format_response(response_data) ==
    IF response_data.response_type = "error"
    THEN <<Lit("Sorry, an error occurred: ")>> \o response_data.message
    ELSE IF response_data.response_type = "greeting"
    THEN response_data.message
    ELSE IF response_data.response_type = "meeting"
    THEN LET details == response_data.details
             missing == FormatterMissing(details)
         IN  IF "error" \in DOMAIN details
             THEN <<Lit("Sorry, "), Val(details.error)>>
             ELSE IF missing # <<>>
             THEN <<Lit("I need the following information to schedule the meeting: ")>>
                  \o Join(missing)
             ELSE <<Lit("Meeting scheduled with "), Val(details.client_name)>>
                  \o (IF Truthy(DictGet(details, "client_email", PyNone))
                      THEN <<Lit(" (email: "), Val(details.client_email), Lit(")")>>
                      ELSE <<>>)
                  \o <<Lit(" on "), Val(details.date), Lit(" at "), Val(details.time)>>
                  \o (IF Truthy(DictGet(details, "duration", PyNone))
                      THEN <<Lit(" for "), Val(details.duration)>>
                      ELSE <<>>)
                  \o (IF Truthy(DictGet(details, "purpose", PyNone))
                      THEN <<Lit(". Purpose: "), Val(details.purpose)>>
                      ELSE <<>>)
                  \o CalendarLine(details)
    ELSE IF response_data.response_type = "payment_reminder"
    THEN response_data.message
    ELSE IF response_data.response_type = "general"
    THEN response_data.message
    ELSE <<Lit("I'm not sure how to handle that request.")>>

(***************************************************************************)
(* bot_calling_functions                                                   *)
(***************************************************************************)
\* the record of a turn whose handler only computes or only asks the model
PlainTurn(handler, calls, result) ==
    [handler |-> handler, mongo |-> MongoDBClient, calls |-> calls,
     looked |-> NoLookup, details |-> NoDetails, event |-> NoEvent,
     result |-> result]

\* the if/elif/else on the intent: the turn of the handler it calls
Route(i, p, email, e) ==
    IF i = "greeting" THEN PlainTurn("handle_greeting", <<>>, handle_greeting(p))
    ELSE IF i = "meeting" THEN extract_meeting_info(e, email)
    ELSE IF i = "task"
    THEN PlainTurn("handle_task_management", <<>>, Error(<<Exc("NameError")>>))
    ELSE PlainTurn("handle_general_query", <<ModelCall("general")>>,
                   handle_general_query(e))

bot_calling_functions(p, email, e) ==
    LET i == determine_intent(p)
        t == Route(i, p, email, e)
    IN  [intent |-> i, turn |-> t,
         response |-> IF i = "task"
                      THEN <<Lit("I encountered an error: "), Exc("NameError")>>
                      ELSE format_response(t.result)]

(***************************************************************************)
(* What the outside world may answer in a turn.                            *)
(***************************************************************************)
Me == <<"m","e","@","c","o","r","p",".","c","o","m">>
Acme == <<"A","c","m","e">>
Review == <<"r","e","v","i","e","w">>
Reply == <<"4","2">>

\* the client directories: empty; one client, stored in lower case; one
\* client with no email
Directories ==
    { {},
      { [name |-> <<"a","c","m","e">>, email |-> PyStr(<<"a","@","x",".","c","o","m">>)] },
      { [name |-> <<"A","C","M","E">>, email |-> PyNone] } }

\* a directory and the store's answer to a lookup in it
Lookups ==
    { [directory |-> d, lookup |-> "ok"] : d \in Directories }
    \cup { [directory |-> {}, lookup |-> a] : a \in {"operation_failure", "unreachable"} }

Names == { PyNone, PyStr(<<>>), PyStr(Acme) }
Dates == { PyNone, PyStr(<<>>),
           PyStr(<<"2","0","2","4","-","0","3","-","0","1">>),
           PyStr(<<"2","0","2","4","-","1","3","-","4","5">>),
           PyStr(<<"9","9","9","9","-","1","2","-","3","1">>) }
Times == { PyNone,
           PyStr(<<"1","4",":","0","0">>),
           PyStr(<<"2","3",":","3","0">>),
           PyStr(<<"2","5",":","0","0">>) }
Durations == { Absent, PyNone,
               PyStr(<<"2"," ","h","o","u","r","s">>),
               PyStr(<<"3","0"," ","m","i","n">>) }
Purposes == { PyNone, PyStr(<<>>), PyStr(Review) }
ModelEmails == { Absent, PyStr(<<"e","v","i","l","@","x",".","c","o","m">>) }
Amounts == { PyNone, PyNum(250), PyNum(0), PyNum(-5) }

\* the JSON object the model replies with: the keys a handler reads
Info(name, date, time, duration, purpose, email, amount, due) ==
    [client_name |-> name, date |-> date, time |-> time, duration |-> duration,
     purpose |-> purpose, client_email |-> email, amount_due |-> amount,
     due_date |-> due]

NoInfo == Info(Absent, Absent, Absent, Absent, Absent, Absent, Absent, Absent)

MeetingInfos ==
    { Info(n, d, t, u, p, m, Absent, Absent) :
        n \in Names, d \in Dates, t \in Times, u \in Durations,
        p \in Purposes, m \in ModelEmails }

PaymentInfos ==
    { Info(n, Absent, Absent, Absent, p, m, a, d) :
        n \in Names, p \in Purposes, m \in ModelEmails, a \in Amounts, d \in Dates }

Env(c, m, i, l, g) ==
    [connect |-> c, model |-> m, info |-> i, directory |-> l.directory,
     lookup |-> l.lookup, graph |-> g, content |-> Reply]

\* turns in which the store or the model fails
FailingEnvs ==
    { Env(c, "ok", NoInfo, [directory |-> {}, lookup |-> "ok"], TRUE) :
        c \in {"timeout", "bad_uri"} }
    \cup { Env("ok", m, NoInfo, [directory |-> {}, lookup |-> "ok"], TRUE) :
            m \in {"api_error", "bad_json"} }

\* a complete request, one with a malformed date, one without a purpose,
\* one without a client, and a payment request
SomeInfos ==
    { Info(PyStr(Acme), d, PyStr(<<"1","4",":","0","0">>), Absent, p, Absent,
           Absent, Absent) :
        d \in { PyStr(<<"2","0","2","4","-","0","3","-","0","1">>),
                PyStr(<<"2","0","2","4","-","1","3","-","4","5">>) },
        p \in { PyNone, PyStr(Review) } }
    \cup { Info(PyNone, PyStr(<<"2","0","2","4","-","0","3","-","0","1">>),
                PyStr(<<"1","4",":","0","0">>), Absent, PyStr(Review), Absent,
                Absent, Absent),
           Info(PyStr(Acme), Absent, Absent, Absent, PyNone, Absent, PyNum(250),
                PyStr(<<"2","0","2","4","-","0","3","-","0","1">>)) }

DispatchEnvs ==
    FailingEnvs
    \cup { Env("ok", "ok", i, l, TRUE) :
            i \in SomeInfos,
            l \in { x \in Lookups : x.lookup = "ok" /\ x.directory # {} } }

HandlerEnvs ==
    FailingEnvs
    \cup { Env("ok", "ok", i, l, g) :
            i \in MeetingInfos \cup PaymentInfos, l \in Lookups, g \in BOOLEAN }

(***************************************************************************)
(* Initial states.  Init is the program as it starts; the others draw the  *)
(* inputs of the function they apply.                                      *)
(***************************************************************************)
NoIntent == "none"
NoTurn == [handler |-> "none"]

Fresh ==
    /\ intent = NoIntent
    /\ turn = NoTurn
    /\ response = <<>>
    /\ messages = <<>>

InitIntent ==
    /\ Fresh
    /\ prompt \in Texts
    /\ env = Env("ok", "ok", NoInfo, [directory |-> {}, lookup |-> "ok"], TRUE)
    /\ user_email = Me

InitDispatch ==
    /\ Fresh
    /\ prompt \in Texts
    /\ env \in DispatchEnvs
    /\ user_email = Me

InitHandlers ==
    /\ Fresh
    /\ prompt = <<>>
    /\ env \in HandlerEnvs
    /\ user_email = Me

(***************************************************************************)
(* determine_intent applied to the message.                                *)
(***************************************************************************)
Classify ==
    /\ intent = NoIntent
    /\ intent' = determine_intent(prompt)
    /\ UNCHANGED <<prompt, turn, response, env, user_email, messages>>

NextIntent == Classify

SpecIntent == InitIntent /\ [][NextIntent]_vars

(***************************************************************************)
(* The two handlers applied to what the outside world answers.             *)
(***************************************************************************)
MeetingTurn ==
    /\ turn = NoTurn
    /\ turn' = extract_meeting_info(env, user_email)
    /\ response' = format_response(turn'.result)
    /\ intent' = "meeting"
    /\ UNCHANGED <<prompt, env, user_email, messages>>

PaymentTurn ==
    /\ turn = NoTurn
    /\ turn' = extract_payment_info(env, user_email)
    /\ response' = format_response(turn'.result)
    /\ intent' = "payment_reminder"
    /\ UNCHANGED <<prompt, env, user_email, messages>>

NextHandlers == MeetingTurn \/ PaymentTurn

SpecHandlers == InitHandlers /\ [][NextHandlers]_vars

(***************************************************************************)
(* bot_calling_functions applied to the message.                           *)
(***************************************************************************)
Dispatch ==
    /\ turn = NoTurn
    /\ \E r \in { bot_calling_functions(prompt, user_email, env) } :
        /\ intent' = r.intent
        /\ turn' = r.turn
        /\ response' = r.response
    /\ UNCHANGED <<prompt, env, user_email, messages>>

NextDispatch == Dispatch

SpecDispatch == InitDispatch /\ [][NextDispatch]_vars

(***************************************************************************)
(* The chat shell, main(): one action for each button.                     *)
(***************************************************************************)
At == <<"@">>
EmailInputs == { <<>>, <<"m","e">>, Me }
ShellPrompts ==
    { <<>>, <<"h","i">>, <<"B","O","O","K">>, <<"p","a","y">>, <<"w","h","a","t">> }
ShellEnvs ==
    { e \in DispatchEnvs :
        \/ e.connect = "timeout"
        \/ /\ e.connect = "ok" /\ e.model = "ok"
           /\ e.info.purpose = PyStr(Review) /\ e.info.client_name = PyStr(Acme)
           /\ e.directory # {} /\ e.info.amount_due = Absent
           /\ (CHOOSE c \in e.directory : TRUE).email # PyNone }

Init ==
    /\ Fresh
    /\ prompt = <<>>
    /\ env = Env("ok", "ok", NoInfo, [directory |-> {}, lookup |-> "ok"], TRUE)
    /\ user_email = <<>>

\* a Submit Email that takes whatever was typed
SubmitEmail_unchecked ==
    /\ user_email = <<>>
    /\ \E email_input \in EmailInputs :
        user_email' = IF email_input # <<>> THEN email_input ELSE user_email
    /\ UNCHANGED <<prompt, intent, turn, response, env, messages>>

SubmitEmail ==
    /\ user_email = <<>>
    /\ \E email_input \in EmailInputs :
        user_email' = IF email_input # <<>> /\ Contains(email_input, At)
                      THEN email_input
                      ELSE user_email
    /\ UNCHANGED <<prompt, intent, turn, response, env, messages>>

ChangeEmail ==
    /\ user_email # <<>>
    /\ user_email' = <<>>
    /\ UNCHANGED <<prompt, intent, turn, response, env, messages>>

Send ==
    /\ user_email # <<>>
    /\ Len(messages) + 2 <= MaxMessages
    /\ \E user_input \in ShellPrompts, e \in ShellEnvs :
        IF user_input # <<>>
        THEN \E r \in { bot_calling_functions(user_input, user_email, e) } :
                /\ prompt' = user_input
                /\ env' = e
                /\ intent' = r.intent
                /\ turn' = r.turn
                /\ response' = r.response
                /\ messages' = messages
                      \o <<[role |-> "user", content |-> <<Val(PyStr(user_input))>>],
                           [role |-> "assistant", content |-> r.response]>>
        ELSE UNCHANGED <<prompt, env, intent, turn, response, messages>>
    /\ UNCHANGED user_email

ClearChat ==
    /\ user_email # <<>>
    /\ messages' = <<>>
    /\ UNCHANGED <<prompt, intent, turn, response, env, user_email>>

Next == SubmitEmail \/ ChangeEmail \/ Send \/ ClearChat

Spec == Init /\ [][Next]_vars

(***************************************************************************)
(* create_calendar_event applied to a request whose client is resolved.    *)
(***************************************************************************)
DurationTexts ==
    { Absent, PyNone, PyStr(<<>>),
      PyStr(<<"2"," ","h","o","u","r","s">>),
      PyStr(<<"3","0"," ","m","i","n">>),
      PyStr(<<"9","0"," ","M","i","n","u","t","e","s">>),
      PyStr(<<"3"," ","H","O","U","R","S">>),
      PyStr(<<"2","h","o","u","r","s">>),
      PyStr(<<"a","n"," ","h","o","u","r">>),
      PyStr(<<"s","o","o","n">>),
      PyStr(<<"-","1"," ","h","o","u","r">>),
      PyStr(<<"1","_","0"," ","m","i","n","s">>) }

DurationEnvs ==
    { Env("ok", "ok", Info(PyStr(Acme), d, t, u, PyStr(Review), Absent, Absent, Absent),
          [directory |-> { [name |-> <<"a","c","m","e">>,
                            email |-> PyStr(<<"a","@","x",".","c","o","m">>)] },
           lookup |-> "ok"], g) :
        d \in { x \in Dates : Truthy(x) },
        t \in { x \in Times : Truthy(x) },
        u \in DurationTexts,
        g \in BOOLEAN }

InitDuration ==
    /\ Fresh
    /\ prompt = <<>>
    /\ env \in DurationEnvs
    /\ user_email = Me

CalendarTurn ==
    /\ turn = NoTurn
    /\ \E r \in { verify_client(env.directory, env.lookup, env.info.client_name) } :
       \E details \in { [MeetingDetails(env.info) EXCEPT !.client_email = r.email] } :
       \E ev \in { create_calendar_event(details, user_email, env.graph) } :
        turn' = [handler |-> "create_calendar_event", mongo |-> MongoDBClient,
                 calls |-> EventCalls(ev), looked |-> Looked(r),
                 details |-> details, event |-> Attempted(ev),
                 result |-> Error(<<>>)]
    /\ UNCHANGED <<prompt, intent, response, env, user_email, messages>>

NextDuration == CalendarTurn

SpecDuration == InitDuration /\ [][NextDuration]_vars

(***************************************************************************)
(* Properties.                                                             *)
(***************************************************************************)
IsCalendarCall(c) == c.svc = "calendar"
IsLookupCall(c) == c.svc = "verify_client"
CalendarCalls(t) == SelectSeq(t.calls, IsCalendarCall)
LookupCalls(t) == SelectSeq(t.calls, IsLookupCall)

\* a turn of the meeting handler in which the model's reply became a request
MeetingRequestTurn ==
    turn.handler = "extract_meeting_info" /\ turn.details # NoDetails
PaymentRequestTurn ==
    turn.handler = "extract_payment_info" /\ turn.details # NoDetails

NullOrEmpty(v) == v \in { Absent, PyNone, PyStr(<<>>) }

\* C1: bot_calling_functions gives each intent to its own handler (greeting,
\* meeting, payment_reminder, general) and passes the handler's result
\* through format_response; a payment_reminder message is processed by the
\* payment reminder handler.
C1_EachIntentItsHandler ==
    turn # NoTurn =>
        /\ intent = "greeting" => turn.handler = "handle_greeting"
        /\ intent = "meeting" => turn.handler = "extract_meeting_info"
        /\ intent = "payment_reminder" => turn.handler = "extract_payment_info"
        /\ intent = "general" => turn.handler = "handle_general_query"
        /\ response = format_response(turn.result)

\* C2: on the lower-cased text, determine_intent returns greeting exactly
\* when a greeting keyword occurs; meeting exactly when none does and a
\* meeting keyword occurs; payment_reminder exactly when neither does and a
\* payment keyword occurs; general otherwise, the empty text included.
C2_IntentByPriority ==
    intent # NoIntent =>
        LET text == lower(prompt)
            greets == \E w \in {kw_hello, kw_hi, kw_hey, kw_help} : Contains(text, w)
            meets == \E w \in {kw_schedule, kw_meeting, kw_appointment, kw_arrange,
                               kw_book} : Contains(text, w)
            pays == \E w \in {kw_payment, kw_reminder, kw_due, kw_amount, kw_pay,
                              kw_invoice} : Contains(text, w)
        IN  /\ intent = "greeting" <=> greets
            /\ intent = "meeting" <=> ~greets /\ meets
            /\ intent = "payment_reminder" <=> ~greets /\ ~meets /\ pays
            /\ intent = "general" <=> ~greets /\ ~meets /\ ~pays
            /\ prompt = <<>> => intent = "general"

\* a message written with capitals that holds a greeting and a meeting
\* keyword was classified greeting
C2_Witness ==
    /\ intent = "greeting"
    /\ prompt # lower(prompt)
    /\ Contains(lower(prompt), kw_meeting)
    /\ Contains(lower(prompt), kw_hello)

\* C3: in a turn of the meeting handler in which one of client_name, date,
\* time, purpose is missing from the extracted record, no calendar-creation
\* call is made.
C3_NoBookingWhenFieldMissing ==
    ( /\ MeetingRequestTurn
      /\ \/ NullOrEmpty(env.info.client_name) \/ NullOrEmpty(env.info.date)
         \/ NullOrEmpty(env.info.time) \/ NullOrEmpty(env.info.purpose) )
    => /\ ~turn.event.attempted
       /\ CalendarCalls(turn) = <<>>

\* the extraction and the validation of the date and time succeeded, and
\* both are present
DateAndTimeGood ==
    /\ MeetingRequestTurn
    /\ Truthy(turn.details.date) /\ ParseDate(turn.details.date.s).ok
    /\ Truthy(turn.details.time) /\ ParseTime(turn.details.time.s).ok

\* C4 as stated: with a valid date and time, a calendar-creation call is
\* attempted also when no client_name was extracted.
C4_BookingWithoutClient ==
    (DateAndTimeGood /\ ~Truthy(turn.details.client_name)) => turn.event.attempted

\* C4, amended: with a valid date and time, a calendar-creation call is
\* attempted exactly when a client_name was extracted and the directory
\* lookup found it; when no client_name was extracted there is no lookup and
\* no attempt.
C4_BookingNeedsResolvedClient ==
    DateAndTimeGood =>
        /\ turn.event.attempted <=>
              /\ Truthy(turn.details.client_name)
              /\ turn.looked.done /\ ~turn.looked.raised /\ turn.looked.exists
        /\ ~Truthy(turn.details.client_name) =>
              /\ ~turn.looked.done
              /\ LookupCalls(turn) = <<>>
              /\ CalendarCalls(turn) = <<>>

\* a turn with a valid date and time and no client name ended with a meeting
\* result and without a calendar attempt
C4_Witness ==
    /\ DateAndTimeGood
    /\ ~Truthy(turn.details.client_name)
    /\ ~turn.event.attempted
    /\ turn.result.response_type = "meeting"

BadDatePresent ==
    Truthy(env.info.date) /\ ~ParseDate(env.info.date.s).ok
BadTimePresent ==
    Truthy(env.info.time) /\ ~ParseTime(env.info.time.s).ok

\* C5: when the extracted date is present and no valid YYYY-MM-DD date, or
\* the time is present and no valid HH:MM time, the meeting handler returns
\* an error whose message names the field and its value, and makes neither a
\* directory lookup nor a calendar call; a bad date is the one reported when
\* the time is bad too.
C5_MalformedDateOrTime ==
    (MeetingRequestTurn /\ (BadDatePresent \/ BadTimePresent)) =>
        /\ turn.result.response_type = "error"
        /\ turn.result.message =
              IF BadDatePresent
              THEN <<Lit("Invalid date format: "), Val(env.info.date),
                     Lit(". Please use YYYY-MM-DD format.")>>
              ELSE <<Lit("Invalid time format: "), Val(env.info.time),
                     Lit(". Please use HH:MM format (24-hour).")>>
        /\ ~turn.looked.done /\ LookupCalls(turn) = <<>>
        /\ ~turn.event.attempted /\ CalendarCalls(turn) = <<>>

\* a turn with a bad date and a bad time, and a client the directory has,
\* reported the date
C5_Witness ==
    /\ MeetingRequestTurn
    /\ BadDatePresent /\ BadTimePresent
    /\ Truthy(env.info.client_name) /\ env.directory # {}
    /\ turn.result.response_type = "error"
    /\ turn.result.message[1] = Lit("Invalid date format: ")

\* C6: when a client_name was extracted and the directory lookup returns
\* not-found, the meeting handler returns an error whose message contains
\* the name and makes no calendar call, whatever the other fields are.
C6_ClientNotFound ==
    ( /\ turn.handler = "extract_meeting_info"
      /\ turn.looked.done /\ ~turn.looked.raised /\ ~turn.looked.exists )
    => /\ turn.result.response_type = "error"
       /\ Val(env.info.client_name) \in Range(turn.result.message)
       /\ Truthy(env.info.client_name)
       /\ ~turn.event.attempted /\ CalendarCalls(turn) = <<>>

\* a complete request for a client the directory does not have
C6_Witness ==
    /\ turn.handler = "extract_meeting_info"
    /\ turn.looked.done /\ ~turn.looked.raised /\ ~turn.looked.exists
    /\ env.lookup = "ok"
    /\ DateAndTimeGood /\ Truthy(env.info.purpose)
    /\ turn.result.response_type = "error"

\* the turn the handler of this turn makes of the answers e
SameHandler(e) ==
    IF turn.handler = "extract_meeting_info"
    THEN extract_meeting_info(e, user_email)
    ELSE extract_payment_info(e, user_email)

\* C7: in a meeting or payment turn the request's client_email is empty or
\* the email the directory lookup of the turn returned, and so is the
\* attendee of a calendar call; the turn (request, calls, result) is the same
\* whatever the model wrote as client_email.
C7_EmailOnlyFromDirectory ==
    (MeetingRequestTurn \/ PaymentRequestTurn) =>
        /\ \/ turn.details.client_email = PyNone
           \/ /\ turn.looked.done /\ ~turn.looked.raised
              /\ turn.details.client_email = turn.looked.email
        /\ \A i \in DOMAIN turn.calls :
              IsCalendarCall(turn.calls[i]) =>
                 /\ turn.looked.done /\ ~turn.looked.raised
                 /\ turn.calls[i].attendee_email = turn.looked.email
        /\ \A m \in ModelEmails \cup { PyNone } :
              SameHandler([env EXCEPT !.info.client_email = m]) = turn

\* the model wrote an email, the directory has another for the client, and
\* the calendar call invites the directory's
C7_Witness ==
    /\ MeetingRequestTurn
    /\ Truthy(env.info.client_email)
    /\ turn.looked.done /\ ~turn.looked.raised /\ turn.looked.exists
    /\ Truthy(turn.looked.email)
    /\ turn.looked.email # env.info.client_email
    /\ CalendarCalls(turn) # <<>>
    /\ CalendarCalls(turn)[1].attendee_email = turn.looked.email
    /\ turn.result.details.client_email = turn.looked.email

\* the line format_response shows for a status
OutcomeLine(status) ==
    IF status = PyStr(created)
    THEN Lit("\nOutlook calendar event has been created and invites have been sent.")
    ELSE IF status = PyStr(failed)
    THEN Lit("\nNote: Failed to create Outlook calendar event.")
    ELSE Lit("\nNote: Error creating calendar event - ")

\* C8: when the meeting handler attempts a calendar creation the turn still
\* returns a meeting-tagged result, the result records the outcome (created,
\* failed or error) as the request's event status, and the displayed summary
\* carries the matching outcome line.
C8_OutcomeRecordedAndShown ==
    (turn.handler = "extract_meeting_info" /\ turn.event.attempted) =>
        /\ turn.result.response_type = "meeting"
        /\ turn.details.calendar_event = turn.event.status
        /\ DictGet(turn.result.details, "calendar_event", PyNone) = turn.event.status
        /\ OutcomeLine(turn.event.status) \in Range(response)

\* the labels of the required fields that are null or empty in the reply
ExpectedMissing(info) ==
    LET Missing(label) ==
            \/ label = "client name" /\ NullOrEmpty(info.client_name)
            \/ label = "date" /\ NullOrEmpty(info.date)
            \/ label = "time" /\ NullOrEmpty(info.time)
            \/ label = "purpose" /\ NullOrEmpty(info.purpose)
    IN  SelectSeq(<<"client name", "date", "time", "purpose">>, Missing)

\* C9: the handler's missing-field list holds exactly those of client name,
\* date, time and purpose whose value is null or empty, in that order, and
\* never the duration.
C9_MissingFieldsExact ==
    (turn.handler = "extract_meeting_info" /\ turn.result.response_type = "meeting") =>
        /\ turn.result.missing_params = ExpectedMissing(env.info)
        /\ "duration" \notin Range(turn.result.missing_params)

\* only the purpose is missing, and the duration is null
C9_Witness ==
    /\ turn.handler = "extract_meeting_info"
    /\ turn.result.response_type = "meeting"
    /\ turn.result.missing_params = <<"purpose">>
    /\ env.info.duration = PyNone

\* the minutes the duration stands for: 60 times the leading integer when
\* the lower-cased text holds "hour", the leading integer when it holds
\* "min", and 60 otherwise and when there is no text or no leading integer
ExpectedMinutes(duration) ==
    IF NullOrEmpty(duration) THEN 60
    ELSE LET text == lower(duration.s)
             n == LeadingInt(text)
         IN  IF ~n.ok THEN 60
             ELSE IF Contains(text, hour) THEN 60 * n.val
             ELSE IF Contains(text, min) THEN n.val
             ELSE 60

\* the minutes from the start to the end of a calendar call
CallMinutes(c) ==
    (c.end_time.ord - c.start_time.ord) * MinutesPerDay
    + c.end_time.min - c.start_time.min

\* C10: the end of the calendar event is its start plus the minutes of the
\* duration: "2 hours" gives 120, "30 min" gives 30, and a null duration
\* with start 14:00 gives end 15:00.
C10_EndIsStartPlusDuration ==
    turn # NoTurn =>
    \A i \in DOMAIN turn.calls :
        IsCalendarCall(turn.calls[i]) =>
            LET c == turn.calls[i]
                u == turn.details.duration
            IN  /\ CallMinutes(c) = ExpectedMinutes(u)
                /\ c.end_time.min \in 0..(MinutesPerDay - 1)
                /\ u = PyStr(<<"2"," ","h","o","u","r","s">>) => CallMinutes(c) = 120
                /\ u = PyStr(<<"3","0"," ","m","i","n">>) => CallMinutes(c) = 30
                /\ (u = PyNone /\ c.start_time.min = 14 * 60) =>
                      /\ c.end_time.min = 15 * 60
                      /\ c.end_time.ord = c.start_time.ord

\* a duration written with capitals gave its minutes, past midnight
C10_Witness ==
    /\ turn.handler = "create_calendar_event"
    /\ turn.details.duration = PyStr(<<"9","0"," ","M","i","n","u","t","e","s">>)
    /\ CalendarCalls(turn) # <<>>
    /\ CallMinutes(turn.calls[1]) = 90
    /\ turn.calls[1].end_time.ord = turn.calls[1].start_time.ord + 1

Asks(display) ==
    /\ display # <<>>
    /\ display[1] = Lit("I need the following information to schedule the meeting: ")

\* C12: for a meeting-tagged result of the handler, format_response asks for
\* missing information exactly when the handler's missing-field list is not
\* empty, and then names the fields of that list; the formatter's own list
\* is the handler's, and "Meeting scheduled with" is said only when none of
\* client name, date, time and purpose is missing.
C12_FormatterAgreesWithHandler ==
    (turn.handler = "extract_meeting_info" /\ turn.result.response_type = "meeting") =>
        LET missing == turn.result.missing_params
        IN  /\ Asks(response) <=> missing # <<>>
            /\ Asks(response) => Tail(response) = Join(missing)
            /\ FormatterMissing(turn.result.details) = missing
            /\ response[1] = Lit("Meeting scheduled with ") =>
                  ExpectedMissing(env.info) = <<>>

\* C13: on every exit path of the meeting handler and of the payment handler
\* the store client made for the turn is closed when the handler returns: no
\* turn leaves a store client open.
C13_StoreClientClosed ==
    turn.handler \in {"extract_meeting_info", "extract_payment_info"} =>
        turn.mongo.client # "open"

\* the turn the handler makes when the store is reachable and has no client
DataMiss == SameHandler([env EXCEPT !.lookup = "ok", !.directory = {}])

HandlerLookedUp ==
    /\ turn.handler \in {"extract_meeting_info", "extract_payment_info"}
    /\ turn.looked.done

\* C14 as stated: when the store is unreachable at the lookup, verify_client
\* returns (False, None) without raising and the turn ends with the "Client
\* 'X' not found" error of a data miss.
C14_UnreachableIsNotFound ==
    (HandlerLookedUp /\ env.lookup = "unreachable") =>
        /\ ~turn.looked.raised
        /\ ~turn.looked.exists /\ turn.looked.email = PyNone
        /\ turn.result = DataMiss.result

\* C14, amended: when the store is unreachable at the lookup, verify_client
\* raises, and the turn ends with the handler's general error ("Error
\* processing meeting request: ..." or "An error occurred: ..."), which does
\* not name the client, with no calendar call and the store client closed.
\* Only a lookup ending in OperationFailure is turned into (False, None) and
\* ends the turn as a data miss does.
C14_UnreachableLookupRaises ==
    HandlerLookedUp =>
        /\ env.lookup = "unreachable" =>
              /\ turn.looked.raised
              /\ turn.result =
                    Error(<<Lit(IF turn.handler = "extract_meeting_info"
                                THEN "Error processing meeting request: "
                                ELSE "An error occurred: "),
                            Exc("lookup")>>)
              /\ turn.result # DataMiss.result
              /\ Val(env.info.client_name) \notin Range(turn.result.message)
              /\ ~turn.event.attempted /\ CalendarCalls(turn) = <<>>
              /\ turn.mongo.client = "closed"
        /\ env.lookup = "operation_failure" =>
              /\ ~turn.looked.raised
              /\ ~turn.looked.exists /\ turn.looked.email = PyNone
              /\ turn.result = DataMiss.result
              /\ turn.result.response_type = "error"
              /\ Val(env.info.client_name) \in Range(turn.result.message)

\* a complete meeting request whose lookup found the store unreachable
C14_Witness ==
    /\ HandlerLookedUp
    /\ turn.handler = "extract_meeting_info"
    /\ env.lookup = "unreachable"
    /\ turn.looked.raised
    /\ DateAndTimeGood /\ Truthy(env.info.purpose)
    /\ turn.result.response_type = "error"

IsModelCall(c) == c.svc = "model"
ModelCalls(t) == SelectSeq(t.calls, IsModelCall)

\* the place of a service in a turn
Rank(svc) ==
    IF svc = "connect" THEN 0
    ELSE IF svc = "model" THEN 1
    ELSE IF svc = "verify_client" THEN 2
    ELSE 3

\* C15: when the model call fails or its reply is no valid JSON, the meeting
\* handler and the payment handler return an error result, the model was
\* called exactly once, and no lookup and no calendar call was made; in
\* every turn the model, the lookup and the calendar are each called at most
\* once, in that order.
C15_NoRetryAndOrder ==
    turn.handler \in {"extract_meeting_info", "extract_payment_info"} =>
        /\ (env.connect = "ok" /\ env.model # "ok") =>
              /\ turn.result.response_type = "error"
              /\ Len(ModelCalls(turn)) = 1
              /\ LookupCalls(turn) = <<>> /\ ~turn.looked.done
              /\ CalendarCalls(turn) = <<>> /\ ~turn.event.attempted
        /\ Len(ModelCalls(turn)) <= 1
        /\ Len(LookupCalls(turn)) <= 1
        /\ Len(CalendarCalls(turn)) <= 1
        /\ \A i, j \in DOMAIN turn.calls :
              i < j => Rank(turn.calls[i].svc) < Rank(turn.calls[j].svc)

\* the model's reply was no valid JSON and the meeting handler stopped there
C15_Witness ==
    /\ turn.handler = "extract_meeting_info"
    /\ env.connect = "ok" /\ env.model = "bad_json"
    /\ turn.result.response_type = "error"
    /\ turn.calls = <<ConnectCall, ModelCall("meeting")>>

\* the gate of the chat: a signed-in email with an "@"
GateOpen == user_email # <<>> /\ Contains(user_email, At)

\* what a step of the shell may do to the email, the log and the turn
C16_Step ==
    /\ messages' # messages =>
          \/ messages' = <<>> /\ user_email' = user_email
          \/ /\ GateOpen /\ user_email' = user_email
             /\ prompt' # <<>>
             /\ messages' = messages
                   \o <<[role |-> "user", content |-> <<Val(PyStr(prompt'))>>],
                        [role |-> "assistant", content |-> response']>>
    /\ (turn' # turn \/ intent' # intent \/ response' # response) =>
          /\ GateOpen
          /\ Len(messages') = Len(messages) + 2
    /\ user_email' # user_email =>
          /\ messages' = messages
          /\ turn' = turn /\ response' = response
          /\ IF user_email = <<>>
             THEN Contains(user_email', At)
             ELSE user_email' = <<>>

\* C16: after any sequence of Submit Email, Change Email, Send and Clear
\* Chat, the email is empty or holds an "@", and a message is dispatched
\* only with such an email signed in; Submit Email and Change Email leave
\* the log alone, Change Email empties the email, and the log changes only
\* by a user entry followed by an assistant entry on a Send with a non-empty
\* input, or by being emptied.
C16_GateAndLog ==
    /\ [](user_email = <<>> \/ Contains(user_email, At))
    /\ [][C16_Step]_vars

\* the email was changed after two messages were sent: the gate is closed
\* again and the log is kept
C16_Witness ==
    /\ user_email = <<>>
    /\ Len(messages) = 4
    /\ messages[1].role = "user" /\ messages[2].role = "assistant"

====
